---- MODULE Spec2Model ----
(***************************************************************************)
(* A model of the two-tone decoder: backend/services/tone_detector.py      *)
(* (class ToneDetector) and its caller backend/api/audio_upload.py         *)
(* (decode_audio).                                                         *)
(*                                                                         *)
(* Numbers.  The program computes in floating point; the model computes    *)
(* in exact integer arithmetic:                                            *)
(*   - frequencies and tolerances are integers in units of 1/16 Hz (the    *)
(*     finest grid step the estimator uses, resolution_hz / 8);            *)
(*   - raw samples are integers; a normalised sample sequence is kept as   *)
(*     its numerators with the common denominator den (the maximum         *)
(*     absolute amplitude); den = 0 stands for the all-NaN array that      *)
(*     numpy yields for 0/0;                                               *)
(*   - a confidence is kept in thousandths, rounded toward zero.           *)
(* The Goertzel magnitude of a window at a frequency depends on the        *)
(* frequency only through the bin k of line 28; the model computes k as    *)
(* the code does and carries the per-bin magnitude of a window as data     *)
(* (window.bins), since the trigonometric recurrence itself has no integer *)
(* model.                                                                  *)
(***************************************************************************)
EXTENDS Integers, Sequences, FiniteSets, TLC

VARIABLES
    pc,                  \* position of the request / call being modelled
    settings_tolerance,  \* settings.frequency_tolerance_hz
    tolerance_arg,       \* the tolerance_hz argument given to ToneDetector()
    tolerance_hz,        \* detector.tolerance_hz (None before construction)
    audio,               \* what librosa.load yields for the uploaded file
    sample_rate,
    frame_length,
    samples,             \* the normalised samples [num, den]
    energy,
    energy_smooth,
    tone_active,
    tone_segments,
    window,              \* the sample window handed to detect_tone_in_window
    est1,                \* (tone1_freq, tone1_conf)
    est2,                \* (tone2_freq, tone2_conf)
    detection,           \* (tone1_hz, tone2_hz, overall_confidence)
    catalog,             \* rows of the tone_entries table
    db_fetched,          \* decode_audio has run select(ToneEntry)
    matched,             \* result of find_matching_tone
    response,            \* what decode_audio sends back
    requests,            \* the decode_audio requests: position and locals
    upload_dir           \* the files in settings.upload_dir, by name

vars == <<pc, settings_tolerance, tolerance_arg, tolerance_hz, audio,
          sample_rate, frame_length, samples, energy, energy_smooth,
          tone_active, tone_segments, window, est1, est2, detection,
          catalog, db_fetched, matched, response, requests, upload_dir>>

(***************************************************************************)
(* Bounds of the model.                                                    *)
(***************************************************************************)
MaxCatalog == 2
MaxFrames == 12

(***************************************************************************)
(* Python's None and optional values: None is the empty tuple, a present   *)
(* value v is the one-element tuple <<v>>.                                 *)
(***************************************************************************)
None == <<>>

Some(v) == <<v>>

Abs(x) == IF x < 0 THEN -x ELSE x

Min(a, b) == IF a <= b THEN a ELSE b

\* the sum of s[lo..hi], by halves
RECURSIVE SumRange(_, _, _)
SumRange(s, lo, hi) ==
    IF lo > hi THEN 0
    ELSE IF lo = hi THEN s[lo]
         ELSE LET mid == (lo + hi) \div 2
              IN  SumRange(s, lo, mid) + SumRange(s, mid + 1, hi)

SumSeq(s) == SumRange(s, 1, Len(s))

(***************************************************************************)
(* ToneDetector.__init__: `tolerance_hz or settings.frequency_tolerance_hz`*)
(* Python's `or` yields its right operand when the left one is falsy:      *)
(* None, and also 0 and 0.0.                                               *)
(***************************************************************************)
Falsy(v) == v = None \/ v = Some(0)

ToneDetectorInit(arg, default) ==
    IF Falsy(arg) THEN Some(default) ELSE arg

(***************************************************************************)
(* ToneDetector.find_matching_tone: the first entry, in the order given,   *)
(* whose two tones are both within the tolerance (inclusive).              *)
(***************************************************************************)
ToneMatchExclusive(detected, entry_hz, tol) == Abs(detected - entry_hz) < tol

ToneMatch(detected, entry_hz, tol) == Abs(detected - entry_hz) <= tol

RECURSIVE FindMatchingTone(_, _, _, _)
FindMatchingTone(detected_tone1, detected_tone2, tone_entries, tol) ==
    IF tone_entries = <<>> THEN None
    ELSE LET entry == Head(tone_entries)
             tone1_match == ToneMatch(detected_tone1, entry[3], tol)
             tone2_match == ToneMatch(detected_tone2, entry[4], tol)
         IN  IF tone1_match /\ tone2_match
             THEN Some(entry)
             ELSE FindMatchingTone(detected_tone1, detected_tone2,
                                   Tail(tone_entries), tol)

(***************************************************************************)
(* ToneDetector._find_tone_segments.  min_tone_frames is                   *)
(* int(0.1 * sample_rate / frame_length): the quotient rounded down.       *)
(* FindToneStep is one pass through the body of the for loop, for frame i  *)
(* (numbered from 0 as in the code, so frame i is tone_active[i + 1] of    *)
(* the TLA+ sequence), on the loop's variables (segments, in_tone,         *)
(* start_idx).  FindToneLoop runs the body for the frames lo..hi in order: *)
(* the first half of the range is run to its end (its in_tone is a         *)
(* boolean by then) before the second half starts from what it left.       *)
(***************************************************************************)
MinToneFrames(sr, fl) == sr \div (10 * fl)

FindToneStep(active, fl, min_tone_frames, i, st) ==
    IF active[i + 1] /\ ~st.in_tone
    THEN [segments |-> st.segments, in_tone |-> TRUE, start_idx |-> i]
    ELSE IF ~active[i + 1] /\ st.in_tone
         THEN [segments |-> IF i - st.start_idx >= min_tone_frames
                            THEN Append(st.segments,
                                        <<st.start_idx * fl, i * fl>>)
                            ELSE st.segments,
               in_tone |-> FALSE, start_idx |-> st.start_idx]
         ELSE st

RECURSIVE FindToneLoop(_, _, _, _, _, _)
FindToneLoop(active, fl, min_tone_frames, lo, hi, st) ==
    IF lo > hi THEN st
    ELSE IF lo = hi THEN FindToneStep(active, fl, min_tone_frames, lo, st)
         ELSE LET mid == (lo + hi) \div 2
                  first == FindToneLoop(active, fl, min_tone_frames,
                                        lo, mid, st)
              IN  IF first.in_tone \in BOOLEAN
                  THEN FindToneLoop(active, fl, min_tone_frames,
                                    mid + 1, hi, first)
                  ELSE first

\* segments = [], in_tone = False, start_idx = 0
FindToneStart == [segments |-> <<>>, in_tone |-> FALSE, start_idx |-> 0]

FindToneSegmentsNoTail(active, fl, sr) ==
    FindToneLoop(active, fl, MinToneFrames(sr, fl), 0, Len(active) - 1,
                 FindToneStart).segments

FindToneSegments(active, fl, sr) ==
    LET min_tone_frames == MinToneFrames(sr, fl)
        after == FindToneLoop(active, fl, min_tone_frames, 0,
                              Len(active) - 1, FindToneStart)
    IN  IF after.in_tone /\ Len(active) - after.start_idx >= min_tone_frames
        THEN Append(after.segments,
                    <<after.start_idx * fl, Len(active) * fl>>)
        ELSE after.segments

(***************************************************************************)
(* The frequency scan.  resolution_hz is the default 0.5 Hz and ScanMin    *)
(* the default lower end 200 Hz of freq_range, both in 1/16 Hz.  The       *)
(* default upper end (3000 Hz, 5600 candidates) is replaced by a scan of   *)
(* NumCandidates candidates: detect_tone_in_window takes freq_range as a   *)
(* parameter.                                                              *)
(***************************************************************************)
resolution_hz == 8

ScanMin == 3200

NumCandidates == 27

ScanMax == ScanMin + NumCandidates * resolution_hz

\* np.arange(start, stop, step): start + i*step for every i >= 0 below stop.
Arange(start, stop, step) ==
    LET count == IF stop > start THEN (stop - start + step - 1) \div step
                 ELSE 0
    IN  [i \in 1..count |-> start + (i - 1) * step]

(***************************************************************************)
(* goertzel.  k = int(0.5 + n * target_freq / sample_rate) with            *)
(* target_freq = f/16 Hz; the magnitude returned is that of bin k.         *)
(***************************************************************************)
GoertzelBin(n, sr, f) == (n * f + 8 * sr) \div (16 * sr)

Goertzel(win, sr, f) == win.bins[GoertzelBin(win.n, sr, f)]

\* np.argmax: the first index (from 0) holding the maximum.
ArgMax(magnitudes) ==
    CHOOSE i \in 0..(Len(magnitudes) - 1) :
        /\ \A j \in 0..(Len(magnitudes) - 1) :
              magnitudes[j + 1] <= magnitudes[i + 1]
        /\ \A j \in 0..(i - 1) : magnitudes[j + 1] < magnitudes[i + 1]

\* The largest r in lo..hi with r*r <= x (lo*lo <= x is given).
RECURSIVE ISqrtBetween(_, _, _)
ISqrtBetween(x, lo, hi) ==
    IF lo = hi THEN lo
    ELSE LET mid == (lo + hi + 1) \div 2
         IN  IF mid * mid <= x THEN ISqrtBetween(x, mid, hi)
             ELSE ISqrtBetween(x, lo, mid - 1)

ISqrt(x) == ISqrtBetween(x, 0, 46340)

(***************************************************************************)
(* Lines 78-85.  With n magnitudes of sum S and sum of squares Q,          *)
(* mean = S/n and std = sqrt(n*Q - S*S)/n, so                              *)
(*   (peak - mean) / (5 * std) = (n*peak - S) / (5 * sqrt(n*Q - S*S)).     *)
(* PeakProminence is that quotient in thousandths, rounded toward zero.    *)
(***************************************************************************)
SumSquares(magnitudes) ==
    SumSeq([i \in 1..Len(magnitudes) |-> magnitudes[i] * magnitudes[i]])

Spread(magnitudes) ==
    Len(magnitudes) * SumSquares(magnitudes)
        - SumSeq(magnitudes) * SumSeq(magnitudes)

PeakProminence(magnitudes, peak_magnitude) ==
    LET num == Len(magnitudes) * peak_magnitude - SumSeq(magnitudes)
        root == ISqrt((40000 * num * num) \div Spread(magnitudes))
    IN  IF num >= 0 THEN root ELSE -root

ConfidenceNoClamp(magnitudes, peak_magnitude) ==
    IF Spread(magnitudes) > 0
    THEN PeakProminence(magnitudes, peak_magnitude)
    ELSE 0

Confidence(magnitudes, peak_magnitude) ==
    IF Spread(magnitudes) > 0
    THEN Min(1000, PeakProminence(magnitudes, peak_magnitude))
    ELSE 0

(***************************************************************************)
(* _refine_frequency and detect_tone_in_window.                            *)
(***************************************************************************)
ScanMagnitudes(win, sr, test_freqs) ==
    [i \in 1..Len(test_freqs) |-> Goertzel(win, sr, test_freqs[i])]

RefineGridAsDocumented(center_freq, step) ==
    Arange(center_freq - step * 4, center_freq + step * 4, step \div 2)

RefineGrid(center_freq, step) ==
    Arange(center_freq - step * 2, center_freq + step * 2, step \div 4)

RefineFrequency(win, sr, center_freq, step) ==
    LET test_freqs == RefineGrid(center_freq, step)
        magnitudes == ScanMagnitudes(win, sr, test_freqs)
    IN  test_freqs[ArgMax(magnitudes) + 1]

DetectToneInWindow(win, sr, freq_range, res) ==
    LET test_frequencies == Arange(freq_range[1], freq_range[2], res)
        magnitudes == ScanMagnitudes(win, sr, test_frequencies)
        peak_idx == ArgMax(magnitudes)
        peak_freq == test_frequencies[peak_idx + 1]
        peak_magnitude == magnitudes[peak_idx + 1]
        confidence == Confidence(magnitudes, peak_magnitude)
    IN  IF peak_idx > 0 /\ peak_idx < Len(magnitudes) - 1
        THEN <<RefineFrequency(win, sr, peak_freq, res \div 2), confidence>>
        ELSE <<peak_freq, confidence>>

\* (tone1_conf + tone2_conf) / 2.0, in two-thousandths:
\* (c1/1000 + c2/1000) / 2 = (c1 + c2) / 2000.
OverallConfidence(tone1_conf, tone2_conf) == tone1_conf + tone2_conf

(***************************************************************************)
(* The uploaded file and librosa.load.  A file is described by what it     *)
(* holds: silence, a burst, silence, a second burst, silence (lengths in   *)
(* samples, amplitudes in PCM steps).  A burst alternates +amp, -amp.      *)
(***************************************************************************)
Silence(len) == [i \in 1..len |-> 0]

Burst(len, amp) == [i \in 1..len |-> IF i % 2 = 1 THEN amp ELSE -amp]

Decode(file) ==
    Silence(file.lead) \o Burst(file.len1, file.amp1) \o Silence(file.gap)
        \o Burst(file.len2, file.amp2) \o Silence(file.tail)

(***************************************************************************)
(* detect_two_tone_sequence, lines 128-143.                                *)
(***************************************************************************)
\* np.max(np.abs(samples))
MaxAbs(raw) ==
    LET mags == {Abs(raw[i]) : i \in DOMAIN raw}
    IN  CHOOSE m \in mags : \A x \in mags : x <= m

\* samples / np.max(np.abs(samples)); a zero maximum gives 0/0 = NaN
\* everywhere (den = 0), numpy does not raise.
Normalize(raw) == [num |-> raw, den |-> MaxAbs(raw)]

\* int(sample_rate * 0.01)
FrameLength(sr) == sr \div 100

\* range(0, len(samples) - frame_length, frame_length), as a count
FrameCount(n, fl) == IF n - fl > 0 THEN (n - fl + fl - 1) \div fl ELSE 0

\* np.sum(samples[i:i+frame_length]**2) for the frame starting at sample i
FrameEnergy(num, i, fl) ==
    SumSeq([j \in 1..Min(fl, Len(num) - i) |-> num[i + j] * num[i + j]])

Energy(smp, fl) ==
    [num |-> [f \in 1..FrameCount(Len(smp.num), fl) |->
                 FrameEnergy(smp.num, (f - 1) * fl, fl)],
     den |-> smp.den * smp.den]

\* signal.medfilt(energy, kernel_size): the middle value of the kernel_size
\* values around each entry, zeros standing in beyond both ends.
kernel_size == 5

Padded(seq, i) == IF i >= 1 /\ i <= Len(seq) THEN seq[i] ELSE 0

MedianAt(seq, i, size) ==
    LET half == (size - 1) \div 2
        idx == (i - half)..(i + half)
    IN  CHOOSE v \in {Padded(seq, j) : j \in idx} :
            /\ Cardinality({j \in idx : Padded(seq, j) <= v}) > half
            /\ Cardinality({j \in idx : Padded(seq, j) >= v}) > half

MedFilt(e, size) ==
    [num |-> [i \in 1..Len(e.num) |-> MedianAt(e.num, i, size)],
     den |-> e.den]

(***************************************************************************)
(* threshold = mean + 2 * std; tone_active = energy_smooth > threshold.    *)
(* With n values of sum S and sum of squares Q, x > mean + 2*std is        *)
(* n*x - S > 2 * sqrt(n*Q - S*S).  The comparison does not change when     *)
(* every value is divided by a common factor, so it is evaluated on the    *)
(* numerators divided by their greatest common divisor, which keeps the    *)
(* products within TLC's 32-bit integers.  Every comparison with NaN is    *)
(* false.                                                                  *)
(***************************************************************************)
RECURSIVE Gcd(_, _)
Gcd(a, b) == IF b = 0 THEN a ELSE Gcd(b, a % b)

RECURSIVE GcdOf(_)
GcdOf(values) ==
    IF values = {} THEN 0
    ELSE LET v == CHOOSE x \in values : TRUE
         IN  Gcd(v, GcdOf(values \ {v}))

Reduced(seq) ==
    LET g == GcdOf({seq[i] : i \in DOMAIN seq})
    IN  IF g = 0 THEN seq ELSE [i \in DOMAIN seq |-> seq[i] \div g]

AboveThreshold(x, n, S, Q) ==
    /\ n * x - S > 0
    /\ (n * x - S) * (n * x - S) > 4 * (n * Q - S * S)

ToneActive(smooth) ==
    IF smooth.den = 0
    THEN [i \in 1..Len(smooth.num) |-> FALSE]
    ELSE LET vals == Reduced(smooth.num)
             n == Len(vals)
             S == SumSeq(vals)
             Q == SumSquares(vals)
         IN  [i \in 1..n |-> AboveThreshold(vals[i], n, S, Q)]

(***************************************************************************)
(* decode_audio's presentation: round(tone, 1) and round(confidence, 2),   *)
(* both to the nearest, halves to the even neighbour.  RoundRatio(a, b) is *)
(* a/b so rounded, for a >= 0 and b > 0.                                   *)
(***************************************************************************)
RoundRatio(a, b) ==
    LET q == a \div b
        r == a % b
    IN  IF 2 * r > b \/ (2 * r = b /\ q % 2 = 1) THEN q + 1 ELSE q

\* a frequency in 1/16 Hz, as tenths of a Hz
RoundTone(f) == RoundRatio(10 * f, 16)

\* a confidence in two-thousandths, as hundredths
RoundConfidence(c) == RoundRatio(c, 20)

(***************************************************************************)
(* Values of the variables a specification does not use.                   *)
(***************************************************************************)
NoFile ==
    [ok |-> FALSE, sample_rate |-> 0, lead |-> 0, len1 |-> 0, amp1 |-> 0,
     gap |-> 0, len2 |-> 0, amp2 |-> 0, tail |-> 0]

NoSamples == [num |-> <<>>, den |-> 1]

NoWindow == [n |-> 0, bins |-> <<>>]

NoResponse == [status |-> 0]

DetectorIdle ==
    /\ audio = NoFile
    /\ sample_rate = 0
    /\ frame_length = 0
    /\ samples = NoSamples
    /\ energy = NoSamples
    /\ energy_smooth = NoSamples
    /\ tone_active = <<>>
    /\ tone_segments = <<>>
    /\ window = NoWindow
    /\ est1 = None
    /\ est2 = None

CallerIdle ==
    /\ db_fetched = FALSE
    /\ matched = None
    /\ response = NoResponse

(***************************************************************************)
(* Catalogs: up to MaxCatalog rows (id, label, tone1_hz, tone2_hz), ids    *)
(* unique (the primary key), tones drawn from the given set.               *)
(***************************************************************************)
Labels == <<"alpha", "bravo", "charlie", "delta", "echo">>

Catalogs(tones) ==
    UNION {
        {[i \in 1..n |-> <<i, Labels[i], t1[i], t2[i]>>] :
            t1 \in [1..n -> tones], t2 \in [1..n -> tones]} :
        n \in 0..MaxCatalog}

(***************************************************************************)
(* SpecMatch: a detector is constructed with some tolerance_hz argument    *)
(* and asked once for the entry matching a detected pair.                  *)
(***************************************************************************)
MatchTones == {ScanMin, ScanMin + 1, ScanMin + 2}

SettingsTolerances == {0, 1, 32}

ToleranceArgs == {None, Some(0), Some(1), Some(2)}

MatchInit ==
    /\ pc = "new"
    /\ settings_tolerance \in SettingsTolerances
    /\ tolerance_arg = None
    /\ tolerance_hz = None
    /\ detection \in {<<Some(d1), Some(d2), 0>> : d1 \in MatchTones,
                                                   d2 \in MatchTones}
    /\ catalog \in Catalogs(MatchTones)
    /\ DetectorIdle
    /\ CallerIdle
    /\ requests = <<>>
    /\ upload_dir = <<>>

\* ToneDetector(tolerance_hz=arg), or ToneDetector() when arg is None
Construct ==
    /\ pc = "new"
    /\ \E arg \in ToleranceArgs :
          /\ tolerance_arg' = arg
          /\ tolerance_hz' = ToneDetectorInit(arg, settings_tolerance)
    /\ pc' = "built"
    /\ UNCHANGED <<requests, upload_dir,
                   settings_tolerance, audio, sample_rate, frame_length,
                   samples, energy, energy_smooth, tone_active, tone_segments,
                   window, est1, est2, detection, catalog, db_fetched,
                   matched, response>>

\* detector.find_matching_tone(tone1, tone2, entries)
FindMatch ==
    /\ pc = "built"
    /\ matched' = FindMatchingTone(detection[1][1], detection[2][1],
                                   catalog, tolerance_hz[1])
    /\ pc' = "matched"
    /\ UNCHANGED <<requests, upload_dir,
                   settings_tolerance, tolerance_arg, tolerance_hz, audio,
                   sample_rate, frame_length, samples, energy, energy_smooth,
                   tone_active, tone_segments, window, est1, est2, detection,
                   catalog, db_fetched, response>>

MatchNext == Construct \/ FindMatch

SpecMatch == MatchInit /\ [][MatchNext]_vars

(***************************************************************************)
(* SpecSeg: _find_tone_segments applied to every frame-activity sequence   *)
(* of up to MaxFrames frames, for several frame lengths and sample rates.  *)
(***************************************************************************)
SegSampleRates == {100, 250}

SegFrameLengths == {1, 2, 3, 5}

FrameActivities == UNION {[1..n -> BOOLEAN] : n \in 0..MaxFrames}

SegInit ==
    /\ pc = "seg_call"
    /\ sample_rate \in SegSampleRates
    /\ frame_length \in SegFrameLengths
    /\ tone_active \in FrameActivities
    /\ tone_segments = <<>>
    /\ settings_tolerance = 0
    /\ tolerance_arg = None
    /\ tolerance_hz = None
    /\ audio = NoFile
    /\ samples = NoSamples
    /\ energy = NoSamples
    /\ energy_smooth = NoSamples
    /\ window = NoWindow
    /\ est1 = None
    /\ est2 = None
    /\ detection = None
    /\ catalog = <<>>
    /\ CallerIdle
    /\ requests = <<>>
    /\ upload_dir = <<>>

SegCall ==
    /\ pc = "seg_call"
    /\ tone_segments' = FindToneSegments(tone_active, frame_length, sample_rate)
    /\ pc' = "seg_done"
    /\ UNCHANGED <<requests, upload_dir,
                   settings_tolerance, tolerance_arg, tolerance_hz, audio,
                   sample_rate, frame_length, samples, energy, energy_smooth,
                   tone_active, window, est1, est2, detection, catalog,
                   db_fetched, matched, response>>

SegNext == SegCall

SpecSeg == SegInit /\ [][SegNext]_vars

(***************************************************************************)
(* Lines 160-166 of detect_two_tone_sequence: the two estimates and their  *)
(* mean.  On return the locals of the call are gone.                       *)
(***************************************************************************)
DetectFirst ==
    /\ pc = "detect1"
    /\ est1' = DetectToneInWindow(window, sample_rate, <<ScanMin, ScanMax>>,
                                  resolution_hz)
    /\ pc' = "slice2"
    /\ UNCHANGED <<requests, upload_dir,
                   settings_tolerance, tolerance_arg, tolerance_hz, audio,
                   sample_rate, frame_length, samples, energy, energy_smooth,
                   tone_active, tone_segments, window, est2, detection,
                   catalog, db_fetched, matched, response>>

DetectSecond ==
    /\ pc = "detect2"
    /\ est2' = DetectToneInWindow(window, sample_rate, <<ScanMin, ScanMax>>,
                                  resolution_hz)
    /\ pc' = "combine"
    /\ UNCHANGED <<requests, upload_dir,
                   settings_tolerance, tolerance_arg, tolerance_hz, audio,
                   sample_rate, frame_length, samples, energy, energy_smooth,
                   tone_active, tone_segments, window, est1, detection,
                   catalog, db_fetched, matched, response>>

Combine ==
    /\ pc = "combine"
    /\ detection' = <<Some(est1[1]), Some(est2[1]),
                      OverallConfidence(est1[2], est2[2])>>
    /\ pc' = "return"
    /\ UNCHANGED <<requests, upload_dir,
                   settings_tolerance, tolerance_arg, tolerance_hz, audio,
                   sample_rate, frame_length, samples, energy, energy_smooth,
                   tone_active, tone_segments, window, est1, est2,
                   catalog, db_fetched, matched, response>>

\* detect_two_tone_sequence hands its tuple to the caller; its locals end.
Return ==
    /\ pc = "return"
    /\ pc' = "returned"
    /\ sample_rate' = 0
    /\ frame_length' = 0
    /\ samples' = NoSamples
    /\ energy' = NoSamples
    /\ energy_smooth' = NoSamples
    /\ tone_active' = <<>>
    /\ tone_segments' = <<>>
    /\ window' = NoWindow
    /\ est1' = None
    /\ est2' = None
    /\ UNCHANGED <<requests, upload_dir,
                   settings_tolerance, tolerance_arg, tolerance_hz, audio,
                   detection, catalog, db_fetched, matched, response>>

(***************************************************************************)
(* SpecEst: detect_tone_in_window applied to a first window and then to a  *)
(* second one, as detect_two_tone_sequence does.  A window is its length n *)
(* and the magnitude of each bin a scan can reach: a floor level with up   *)
(* to two bins standing out.                                               *)
(***************************************************************************)
Magnitudes == {0, 1, 2, 3}

EstSampleRates == {300}

EstWindowLengths == {960}

ScanBins(n, sr) ==
    {GoertzelBin(n, sr, f) :
        f \in (ScanMin - 2 * resolution_hz)..(ScanMax + 2 * resolution_hz)}

Spiked(n, sr, base, k1, h1, k2, h2) ==
    [n |-> n,
     bins |-> [k \in ScanBins(n, sr) |->
                  IF k = k1 THEN h1 ELSE IF k = k2 THEN h2 ELSE base]]

EstWindows(sr) ==
    UNION {
        {Spiked(n, sr, base, k1, h1, k2, h2) :
            base \in {0, 1},
            k1 \in ScanBins(n, sr), h1 \in Magnitudes \ {0},
            k2 \in ScanBins(n, sr), h2 \in Magnitudes \ {0}} :
        n \in EstWindowLengths}

SecondWindows(sr) ==
    UNION {
        {Spiked(n, sr, base, k, h, k, h) :
            base \in {0, 1},
            k \in {GoertzelBin(n, sr, ScanMin),
                   GoertzelBin(n, sr, ScanMin + 2 * resolution_hz)},
            h \in {1, 3}} :
        n \in EstWindowLengths}

EstInit ==
    /\ pc = "detect1"
    /\ sample_rate \in EstSampleRates
    /\ window \in EstWindows(sample_rate)
    /\ frame_length = FrameLength(sample_rate)
    /\ settings_tolerance = 0
    /\ tolerance_arg = None
    /\ tolerance_hz = None
    /\ audio = NoFile
    /\ samples = NoSamples
    /\ energy = NoSamples
    /\ energy_smooth = NoSamples
    /\ tone_active = <<>>
    /\ tone_segments = <<>>
    /\ est1 = None
    /\ est2 = None
    /\ detection = None
    /\ catalog = <<>>
    /\ CallerIdle
    /\ requests = <<>>
    /\ upload_dir = <<>>

\* the second window handed to detect_tone_in_window
EstSecondWindow ==
    /\ pc = "slice2"
    /\ window' \in SecondWindows(sample_rate)
    /\ pc' = "detect2"
    /\ UNCHANGED <<requests, upload_dir,
                   settings_tolerance, tolerance_arg, tolerance_hz, audio,
                   sample_rate, frame_length, samples, energy, energy_smooth,
                   tone_active, tone_segments, est1, est2, detection,
                   catalog, db_fetched, matched, response>>

EstNext ==
    DetectFirst \/ EstSecondWindow \/ DetectSecond \/ Combine \/ Return

SpecEst == EstInit /\ [][EstNext]_vars

(***************************************************************************)
(* Spec: one request to decode_audio, from the construction of the         *)
(* detector (line 106) to the response, with detect_two_tone_sequence      *)
(* unfolded step by step.  The upload has been written to the temporary    *)
(* file; `audio` describes what the file holds.                            *)
(***************************************************************************)
FileSampleRates == {100, 200}

Files ==
    {[ok |-> TRUE, sample_rate |-> sr, lead |-> lead * (sr \div 100),
      len1 |-> len1 * (sr \div 100), amp1 |-> amp1,
      gap |-> 40 * (sr \div 100),
      len2 |-> len2 * (sr \div 100), amp2 |-> amp2,
      tail |-> 45 * (sr \div 100) + extra] :
        sr \in FileSampleRates, lead \in {0, 5}, len1 \in {0, 9, 10},
        amp1 \in {1, 2}, len2 \in {0, 10, 12}, amp2 \in {1, 2},
        extra \in {0, 1}}

\* a file librosa.load decodes to no samples at all
EmptyFile ==
    [ok |-> TRUE, sample_rate |-> 100, lead |-> 0, len1 |-> 0, amp1 |-> 0,
     gap |-> 0, len2 |-> 0, amp2 |-> 0, tail |-> 0]

\* a file librosa.load cannot decode
BadFile == NoFile

PipelineTones == {ScanMin, ScanMin + 1}

PipelineMagnitudes == {0, 1, 3}

Init ==
    /\ pc = "construct"
    /\ settings_tolerance \in SettingsTolerances
    /\ tolerance_arg = None
    /\ tolerance_hz = None
    /\ audio \in Files \cup {EmptyFile, BadFile}
    /\ sample_rate = 0
    /\ frame_length = 0
    /\ samples = NoSamples
    /\ energy = NoSamples
    /\ energy_smooth = NoSamples
    /\ tone_active = <<>>
    /\ tone_segments = <<>>
    /\ window = NoWindow
    /\ est1 = None
    /\ est2 = None
    /\ detection = None
    /\ catalog = <<>>
    /\ CallerIdle
    /\ requests = <<>>
    /\ upload_dir = <<>>

\* line 106: ToneDetector(tolerance_hz=settings.frequency_tolerance_hz)
UploadConstruct ==
    /\ pc = "construct"
    /\ tolerance_arg' = Some(settings_tolerance)
    /\ tolerance_hz' = ToneDetectorInit(Some(settings_tolerance),
                                        settings_tolerance)
    /\ pc' = "load"
    /\ UNCHANGED <<requests, upload_dir,
                   settings_tolerance, audio, sample_rate, frame_length,
                   samples, energy, energy_smooth, tone_active, tone_segments,
                   window, est1, est2, detection, catalog, db_fetched,
                   matched, response>>

\* lines 123-124: librosa.load succeeds
LoadOk ==
    /\ pc = "load"
    /\ audio.ok
    /\ samples' = [num |-> Decode(audio), den |-> 1]
    /\ sample_rate' = audio.sample_rate
    /\ pc' = "normalize"
    /\ UNCHANGED <<requests, upload_dir,
                   settings_tolerance, tolerance_arg, tolerance_hz, audio,
                   frame_length, energy, energy_smooth, tone_active,
                   tone_segments, window, est1, est2, detection, catalog,
                   db_fetched, matched, response>>

\* lines 125-126: librosa.load raises, re-raised as ValueError
LoadFails ==
    /\ pc = "load"
    /\ ~audio.ok
    /\ pc' = "value_error"
    /\ UNCHANGED <<requests, upload_dir,
                   settings_tolerance, tolerance_arg, tolerance_hz, audio,
                   sample_rate, frame_length, samples, energy, energy_smooth,
                   tone_active, tone_segments, window, est1, est2, detection,
                   catalog, db_fetched, matched, response>>

\* line 129; np.max of an empty array raises ValueError
NormalizeSamples ==
    /\ pc = "normalize"
    /\ samples.num # <<>>
    /\ samples' = Normalize(samples.num)
    /\ pc' = "energy"
    /\ UNCHANGED <<requests, upload_dir,
                   settings_tolerance, tolerance_arg, tolerance_hz, audio,
                   sample_rate, frame_length, energy, energy_smooth,
                   tone_active, tone_segments, window, est1, est2, detection,
                   catalog, db_fetched, matched, response>>

NormalizeEmpty ==
    /\ pc = "normalize"
    /\ samples.num = <<>>
    /\ pc' = "value_error"
    /\ UNCHANGED <<requests, upload_dir,
                   settings_tolerance, tolerance_arg, tolerance_hz, audio,
                   sample_rate, frame_length, samples, energy, energy_smooth,
                   tone_active, tone_segments, window, est1, est2, detection,
                   catalog, db_fetched, matched, response>>

\* lines 132-136
ComputeEnergy ==
    /\ pc = "energy"
    /\ frame_length' = FrameLength(sample_rate)
    /\ energy' = Energy(samples, FrameLength(sample_rate))
    /\ pc' = "smooth"
    /\ UNCHANGED <<requests, upload_dir,
                   settings_tolerance, tolerance_arg, tolerance_hz, audio,
                   sample_rate, samples, energy_smooth, tone_active,
                   tone_segments, window, est1, est2, detection, catalog,
                   db_fetched, matched, response>>

\* line 139
SmoothEnergy ==
    /\ pc = "smooth"
    /\ energy_smooth' = MedFilt(energy, kernel_size)
    /\ pc' = "threshold"
    /\ UNCHANGED <<requests, upload_dir,
                   settings_tolerance, tolerance_arg, tolerance_hz, audio,
                   sample_rate, frame_length, samples, energy, tone_active,
                   tone_segments, window, est1, est2, detection, catalog,
                   db_fetched, matched, response>>

\* lines 142-143
Threshold ==
    /\ pc = "threshold"
    /\ tone_active' = ToneActive(energy_smooth)
    /\ pc' = "segments"
    /\ UNCHANGED <<requests, upload_dir,
                   settings_tolerance, tolerance_arg, tolerance_hz, audio,
                   sample_rate, frame_length, samples, energy, energy_smooth,
                   tone_segments, window, est1, est2, detection, catalog,
                   db_fetched, matched, response>>

\* line 146
FindSegments ==
    /\ pc = "segments"
    /\ tone_segments' = FindToneSegments(tone_active, frame_length, sample_rate)
    /\ pc' = "check"
    /\ UNCHANGED <<requests, upload_dir,
                   settings_tolerance, tolerance_arg, tolerance_hz, audio,
                   sample_rate, frame_length, samples, energy, energy_smooth,
                   tone_active, window, est1, est2, detection, catalog,
                   db_fetched, matched, response>>

\* lines 148-149
TooFewSegments ==
    /\ pc = "check"
    /\ Len(tone_segments) < 2
    /\ detection' = <<None, None, 0>>
    /\ pc' = "return"
    /\ UNCHANGED <<requests, upload_dir,
                   settings_tolerance, tolerance_arg, tolerance_hz, audio,
                   sample_rate, frame_length, samples, energy, energy_smooth,
                   tone_active, tone_segments, window, est1, est2, catalog,
                   db_fetched, matched, response>>

\* lines 152 and 156: the samples of the first segment
SliceFirst ==
    /\ pc = "check"
    /\ Len(tone_segments) >= 2
    /\ \E bins \in [ScanBins(tone_segments[1][2] - tone_segments[1][1],
                             sample_rate) -> PipelineMagnitudes] :
          window' = [n |-> tone_segments[1][2] - tone_segments[1][1],
                     bins |-> bins]
    /\ pc' = "detect1"
    /\ UNCHANGED <<requests, upload_dir,
                   settings_tolerance, tolerance_arg, tolerance_hz, audio,
                   sample_rate, frame_length, samples, energy, energy_smooth,
                   tone_active, tone_segments, est1, est2, detection, catalog,
                   db_fetched, matched, response>>

\* lines 153 and 157: the samples of the second segment
SliceSecond ==
    /\ pc = "slice2"
    /\ \E bins \in [ScanBins(tone_segments[2][2] - tone_segments[2][1],
                             sample_rate) -> PipelineMagnitudes] :
          window' = [n |-> tone_segments[2][2] - tone_segments[2][1],
                     bins |-> bins]
    /\ pc' = "detect2"
    /\ UNCHANGED <<requests, upload_dir,
                   settings_tolerance, tolerance_arg, tolerance_hz, audio,
                   sample_rate, frame_length, samples, energy, energy_smooth,
                   tone_active, tone_segments, est1, est2, detection, catalog,
                   db_fetched, matched, response>>

(***************************************************************************)
(* decode_audio after the detector returned, lines 109-149.                *)
(***************************************************************************)
\* lines 109-116, with the catalog fetched before the test
NoDetectionAfterFetch ==
    /\ pc = "returned"
    /\ detection[1] = None \/ detection[2] = None
    /\ \E rows \in Catalogs(PipelineTones) : catalog' = rows
    /\ db_fetched' = TRUE
    /\ response' = [status |-> 200, tone1_detected_hz |-> None,
                    tone2_detected_hz |-> None, matched_entry |-> None,
                    confidence |-> 0,
                    message |-> "No two-tone sequence detected in audio file"]
    /\ pc' = "done"
    /\ UNCHANGED <<requests, upload_dir,
                   settings_tolerance, tolerance_arg, tolerance_hz, audio,
                   sample_rate, frame_length, samples, energy, energy_smooth,
                   tone_active, tone_segments, window, est1, est2, detection,
                   matched>>

\* lines 109-116
NoDetection ==
    /\ pc = "returned"
    /\ detection[1] = None \/ detection[2] = None
    /\ response' = [status |-> 200, tone1_detected_hz |-> None,
                    tone2_detected_hz |-> None, matched_entry |-> None,
                    confidence |-> 0,
                    message |-> "No two-tone sequence detected in audio file"]
    /\ pc' = "done"
    /\ UNCHANGED <<requests, upload_dir,
                   settings_tolerance, tolerance_arg, tolerance_hz, audio,
                   sample_rate, frame_length, samples, energy, energy_smooth,
                   tone_active, tone_segments, window, est1, est2, detection,
                   catalog, db_fetched, matched>>

\* lines 119-123: the rows of tone_entries, whatever the table holds
FetchCatalog ==
    /\ pc = "returned"
    /\ detection[1] # None /\ detection[2] # None
    /\ \E rows \in Catalogs(PipelineTones) : catalog' = rows
    /\ db_fetched' = TRUE
    /\ pc' = "match"
    /\ UNCHANGED <<requests, upload_dir,
                   settings_tolerance, tolerance_arg, tolerance_hz, audio,
                   sample_rate, frame_length, samples, energy, energy_smooth,
                   tone_active, tone_segments, window, est1, est2, detection,
                   matched, response>>

\* lines 126-143
MatchAndRespond ==
    /\ pc = "match"
    /\ LET found == FindMatchingTone(detection[1][1], detection[2][1],
                                     catalog, tolerance_hz[1])
       IN  /\ matched' = found
           /\ response' =
                 [status |-> 200,
                  tone1_detected_hz |-> Some(RoundTone(detection[1][1])),
                  tone2_detected_hz |-> Some(RoundTone(detection[2][1])),
                  matched_entry |-> found,
                  confidence |-> RoundConfidence(detection[3]),
                  message |-> IF found # None THEN "Match found"
                              ELSE "Tones detected but no matching entry in database"]
    /\ pc' = "done"
    /\ UNCHANGED <<requests, upload_dir,
                   settings_tolerance, tolerance_arg, tolerance_hz, audio,
                   sample_rate, frame_length, samples, energy, energy_smooth,
                   tone_active, tone_segments, window, est1, est2, detection,
                   catalog, db_fetched>>

\* lines 145-149: except ValueError -> 400
BadRequest ==
    /\ pc = "value_error"
    /\ response' = [status |-> 400, detail |-> "Invalid audio file format"]
    /\ pc' = "done"
    /\ sample_rate' = 0
    /\ frame_length' = 0
    /\ samples' = NoSamples
    /\ UNCHANGED <<requests, upload_dir,
                   settings_tolerance, tolerance_arg, tolerance_hz, audio,
                   energy, energy_smooth, tone_active, tone_segments, window,
                   est1, est2, detection, catalog, db_fetched, matched>>

Next ==
    \/ UploadConstruct
    \/ LoadOk
    \/ LoadFails
    \/ NormalizeSamples
    \/ NormalizeEmpty
    \/ ComputeEnergy
    \/ SmoothEnergy
    \/ Threshold
    \/ FindSegments
    \/ TooFewSegments
    \/ SliceFirst
    \/ DetectFirst
    \/ SliceSecond
    \/ DetectSecond
    \/ Combine
    \/ Return
    \/ NoDetection
    \/ FetchCatalog
    \/ MatchAndRespond
    \/ BadRequest

Spec == Init /\ [][Next]_vars

(***************************************************************************)
(* SpecBurst: detect_two_tone_sequence on the two-burst signal at 8000 Hz: *)
(* burst A for 1.0 s, 0.3 s of silence, burst B for 2.0 s, the bursts at   *)
(* every pair of amplitudes up to MaxAmplitude.                            *)
(***************************************************************************)
MaxAmplitude == 4

BurstFiles ==
    {[ok |-> TRUE, sample_rate |-> 8000, lead |-> 0,
      len1 |-> 8000, amp1 |-> amp1, gap |-> 2400,
      len2 |-> 16000, amp2 |-> amp2, tail |-> 0] :
        amp1 \in 1..MaxAmplitude, amp2 \in 1..MaxAmplitude}

BurstInit ==
    /\ pc = "load"
    /\ audio \in BurstFiles
    /\ settings_tolerance = 32
    /\ tolerance_arg = None
    /\ tolerance_hz = Some(32)
    /\ sample_rate = 0
    /\ frame_length = 0
    /\ samples = NoSamples
    /\ energy = NoSamples
    /\ energy_smooth = NoSamples
    /\ tone_active = <<>>
    /\ tone_segments = <<>>
    /\ window = NoWindow
    /\ est1 = None
    /\ est2 = None
    /\ detection = None
    /\ catalog = <<>>
    /\ CallerIdle
    /\ requests = <<>>
    /\ upload_dir = <<>>

BurstNext ==
    \/ LoadOk
    \/ NormalizeSamples
    \/ ComputeEnergy
    \/ SmoothEnergy
    \/ Threshold
    \/ FindSegments
    \/ TooFewSegments
    \/ Return

SpecBurst == BurstInit /\ [][BurstNext]_vars

(***************************************************************************)
(* SpecUpload: decode_audio as a request handler, several requests in      *)
(* flight over one upload directory.  A request's record holds its         *)
(* position and its locals; upload_dir maps the name of every file in the  *)
(* directory to the request whose open() wrote it last and its length.     *)
(* Sizes are in units of 512 KiB, so the 1 MiB chunk_size is 2 and 1 MiB   *)
(* of max_file_size_mb is 2; an upload is the size file.file.tell()        *)
(* reports and the number of bytes file.read() goes on to deliver.  What   *)
(* the detector and the database do with the file is an outcome drawn      *)
(* from those the code can produce.                                        *)
(***************************************************************************)
MaxRequests == 2
MaxFileSizeMb == 1

RequestIds == 1..MaxRequests

\* uuid.uuid4() names
Uuids == 1..MaxRequests

chunk_size == 2

\* settings.max_file_size_mb * 1024 * 1024
max_size == MaxFileSizeMb * 2

\* the uploads a client can send: (filename kind, size told, bytes delivered)
Uploads ==
    {[filename |-> "none", file_size |-> 1, stream |-> 1],
     [filename |-> "other", file_size |-> 1, stream |-> 1]}
    \cup {[filename |-> "wav", file_size |-> n, stream |-> n] :
             n \in {0, max_size - 1, max_size, max_size + 1}}
    \cup {[filename |-> "wav", file_size |-> max_size,
           stream |-> max_size + 1]}

NewRequest ==
    [pc |-> "waiting", unread |-> 0, bytes_written |-> 0, temp_path |-> None,
     raised |-> None, status |-> 0, message |-> "", remove_failed |-> FALSE]

\* the names uuid4 has handed out so far
UsedUuids == {requests[r].temp_path[1] :
                 r \in {q \in RequestIds : requests[q].temp_path # None}}

\* uuid.uuid4(): a name no earlier call returned.  Names are interchangeable,
\* so the least unused one stands for whichever is drawn.
Uuid4Repeating(used) == Uuids

Uuid4(used) == {n \in Uuids \ used : \A m \in Uuids \ used : n <= m}

\* temp_path.exists()
Exists(path) == path \in DOMAIN upload_dir

\* open(temp_path, "wb"): the file is created, or emptied when it exists
Opened(path, r) ==
    [n \in DOMAIN upload_dir \cup {path} |->
        IF n = path THEN [writer |-> r, bytes |-> 0] ELSE upload_dir[n]]

\* f.write(chunk)
Written(path, len) ==
    [upload_dir EXCEPT ![path].bytes = @ + len]

\* os.remove(temp_path)
Removed(path) == [n \in DOMAIN upload_dir \ {path} |-> upload_dir[n]]

\* the exceptions of the handler; every one of them is an Exception, and
\* only ValueError is a ValueError (HTTPException derives from Exception)
HTTPException(code) == [class |-> "HTTPException", status_code |-> code]

ValueError == [class |-> "ValueError", status_code |-> 0]

OSError == [class |-> "OSError", status_code |-> 0]

OtherException == [class |-> "Exception", status_code |-> 0]

SQLAlchemyError == [class |-> "SQLAlchemyError", status_code |-> 0]

IsValueError(exc) == exc.class = "ValueError"

UploadInit ==
    /\ requests = [r \in RequestIds |-> NewRequest]
    /\ upload_dir = <<>>
    /\ pc = "idle"
    /\ settings_tolerance = 32
    /\ tolerance_arg = None
    /\ tolerance_hz = None
    /\ detection = None
    /\ catalog = <<>>
    /\ DetectorIdle
    /\ CallerIdle

pipeline_state ==
    <<pc, settings_tolerance, tolerance_arg, tolerance_hz, audio,
      sample_rate, frame_length, samples, energy, energy_smooth,
      tone_active, tone_segments, window, est1, est2, detection,
      catalog, db_fetched, matched, response>>

\* lines 35-77: the checks before anything is written, then
\* temp_path = upload_dir / f"{uuid.uuid4()}.wav".  Requests are numbered in
\* the order they arrive.
Validate ==
    \E r \in RequestIds, u \in Uploads :
        /\ requests[r].pc = "waiting"
        /\ \A q \in 1..(r - 1) : requests[q].pc # "waiting"
        /\ \/ /\ u.filename = "none" \/ u.filename = "other"
              /\ requests' = [requests EXCEPT ![r].pc = "done",
                                              ![r].status = 400]
           \/ /\ u.filename = "wav"
              /\ u.file_size > max_size
              /\ requests' = [requests EXCEPT ![r].pc = "done",
                                              ![r].status = 413]
           \/ /\ u.filename = "wav"
              /\ u.file_size <= max_size
              /\ \E name \in Uuid4(UsedUuids) :
                    requests' = [requests EXCEPT ![r].pc = "open",
                                                 ![r].unread = u.stream,
                                                 ![r].temp_path = Some(name)]
        /\ UNCHANGED <<upload_dir, pipeline_state>>

\* lines 81-84: open(temp_path, "wb")
OpenTemp ==
    \E r \in RequestIds :
        /\ requests[r].pc = "open"
        /\ upload_dir' = Opened(requests[r].temp_path[1], r)
        /\ requests' = [requests EXCEPT ![r].pc = "read"]
        /\ UNCHANGED pipeline_state

\* line 84 when open() fails
OpenFails ==
    \E r \in RequestIds :
        /\ requests[r].pc = "open"
        /\ requests' = [requests EXCEPT ![r].pc = "except",
                                        ![r].raised = Some(OSError)]
        /\ UNCHANGED <<upload_dir, pipeline_state>>

\* lines 88-103, a chunk within the limit: it is written
ReadChunk ==
    \E r \in RequestIds :
        LET len == Min(chunk_size, requests[r].unread)
        IN  /\ requests[r].pc = "read"
            /\ len > 0
            /\ requests[r].bytes_written + len <= max_size
            /\ requests' = [requests EXCEPT ![r].unread = @ - len,
                                            ![r].bytes_written = @ + len]
            /\ upload_dir' = Written(requests[r].temp_path[1], len)
            /\ UNCHANGED pipeline_state

\* lines 88-90: the empty chunk ends the loop, the with block closes f
ReadEnd ==
    \E r \in RequestIds :
        /\ requests[r].pc = "read"
        /\ requests[r].unread = 0
        /\ requests' = [requests EXCEPT ![r].pc = "detect"]
        /\ UNCHANGED <<upload_dir, pipeline_state>>

\* lines 92-101, the chunk that passes the limit: the partial file is
\* removed and HTTPException(413) is raised inside the try block; when
\* os.remove fails its OSError is raised instead.  The rest of the upload
\* is never read.
ReadOversize ==
    \E r \in RequestIds :
        LET len == Min(chunk_size, requests[r].unread)
            path == requests[r].temp_path[1]
        IN  /\ requests[r].pc = "read"
            /\ len > 0
            /\ requests[r].bytes_written + len > max_size
            /\ \/ /\ upload_dir' = IF Exists(path) THEN Removed(path)
                                   ELSE upload_dir
                  /\ requests' = [requests EXCEPT
                        ![r].pc = "except",
                        ![r].unread = 0,
                        ![r].bytes_written = @ + len,
                        ![r].raised = Some(HTTPException(413))]
               \/ /\ Exists(path)
                  /\ upload_dir' = upload_dir
                  /\ requests' = [requests EXCEPT
                        ![r].pc = "except",
                        ![r].unread = 0,
                        ![r].bytes_written = @ + len,
                        ![r].remove_failed = TRUE,
                        ![r].raised = Some(OSError)]
            /\ UNCHANGED pipeline_state

DetectOutcomes == {"no_detection", "tones", "ValueError", "Exception"}

\* lines 106-116: the detector runs on the file; without two tones the
\* no-detection result is returned
Detect ==
    \E r \in RequestIds, outcome \in DetectOutcomes :
        /\ requests[r].pc = "detect"
        /\ requests' = [requests EXCEPT ![r] =
              IF outcome = "no_detection"
              THEN [@ EXCEPT !.pc = "finally", !.status = 200,
                             !.message = "no_detection"]
              ELSE IF outcome = "tones"
                   THEN [@ EXCEPT !.pc = "fetch"]
                   ELSE IF outcome = "ValueError"
                        THEN [@ EXCEPT !.pc = "except",
                                       !.raised = Some(ValueError)]
                        ELSE [@ EXCEPT !.pc = "except",
                                       !.raised = Some(OtherException)]]
        /\ UNCHANGED <<upload_dir, pipeline_state>>

\* lines 118-143: the catalog is read and the result returned
FetchAndMatch ==
    \E r \in RequestIds, message \in {"match", "no_match"} :
        /\ requests[r].pc = "fetch"
        /\ requests' = [requests EXCEPT ![r].pc = "finally",
                                        ![r].status = 200,
                                        ![r].message = message]
        /\ UNCHANGED <<upload_dir, pipeline_state>>

\* line 119 when the database fails
FetchFails ==
    \E r \in RequestIds :
        /\ requests[r].pc = "fetch"
        /\ requests' = [requests EXCEPT ![r].pc = "except",
                                        ![r].raised = Some(SQLAlchemyError)]
        /\ UNCHANGED <<upload_dir, pipeline_state>>

\* lines 145-149: except ValueError
ExceptValueError ==
    \E r \in RequestIds :
        /\ requests[r].pc = "except"
        /\ IsValueError(requests[r].raised[1])
        /\ requests' = [requests EXCEPT ![r].pc = "finally",
                                        ![r].raised = None,
                                        ![r].status = 400]
        /\ UNCHANGED <<upload_dir, pipeline_state>>

\* lines 150-156: except Exception, which takes every other exception
ExceptException ==
    \E r \in RequestIds :
        /\ requests[r].pc = "except"
        /\ ~IsValueError(requests[r].raised[1])
        /\ requests' = [requests EXCEPT ![r].pc = "finally",
                                        ![r].raised = None,
                                        ![r].status = 500]
        /\ UNCHANGED <<upload_dir, pipeline_state>>

\* lines 157-164: finally; a failure of os.remove is swallowed.  The
\* request is over: its response is sent and its locals are gone.
Finally ==
    \E r \in RequestIds :
        LET path == requests[r].temp_path[1]
        IN  /\ requests[r].pc = "finally"
            /\ \/ /\ upload_dir' = IF Exists(path) THEN Removed(path)
                                   ELSE upload_dir
                  /\ requests' = [requests EXCEPT ![r].pc = "done",
                                               ![r].unread = 0,
                                               ![r].bytes_written = 0]
               \/ /\ Exists(path)
                  /\ upload_dir' = upload_dir
                  /\ requests' = [requests EXCEPT ![r].pc = "done",
                                               ![r].unread = 0,
                                               ![r].bytes_written = 0,
                                               ![r].remove_failed = TRUE]
            /\ UNCHANGED pipeline_state

UploadNext ==
    \/ Validate
    \/ OpenTemp
    \/ OpenFails
    \/ ReadChunk
    \/ ReadEnd
    \/ ReadOversize
    \/ Detect
    \/ FetchAndMatch
    \/ FetchFails
    \/ ExceptValueError
    \/ ExceptException
    \/ Finally

SpecUpload == UploadInit /\ [][UploadNext]_vars

Within(a, b, tol) == a - b <= tol /\ b - a <= tol

Fits(i) ==
    /\ Within(detection[1][1], catalog[i][3], tolerance_hz[1])
    /\ Within(detection[2][1], catalog[i][4], tolerance_hz[1])

(***************************************************************************)
(* C1.  find_matching_tone returns the first entry, in the order supplied, *)
(* whose tone1 and tone2 are both within the tolerance of the detected     *)
(* pair, a difference equal to the tolerance counting as a match, and      *)
(* returns nothing when no entry fits; a later entry never displaces an    *)
(* earlier one that fits.                                                  *)
(***************************************************************************)
C1_FirstMatchInOrder ==
    pc = "matched" =>
        IF \E i \in 1..Len(catalog) : Fits(i)
        THEN \E i \in 1..Len(catalog) :
                 /\ Fits(i)
                 /\ \A j \in 1..(i - 1) : ~Fits(j)
                 /\ matched = Some(catalog[i])
        ELSE matched = None

\* The first entry fits exactly at the boundary, the second fits exactly,
\* and the first is the one returned.
C1_Witness ==
    /\ pc = "matched"
    /\ Len(catalog) = 2
    /\ tolerance_hz[1] > 0
    /\ Abs(detection[1][1] - catalog[1][3]) = tolerance_hz[1]
    /\ Fits(1)
    /\ catalog[2][3] = detection[1][1]
    /\ catalog[2][4] = detection[2][1]
    /\ matched = Some(catalog[1])

IsMaximalRun(a, b) ==
    /\ 0 <= a /\ a < b /\ b <= Len(tone_active)
    /\ \A i \in a..(b - 1) : tone_active[i + 1]
    /\ a = 0 \/ ~tone_active[a]
    /\ b = Len(tone_active) \/ ~tone_active[b + 1]

(***************************************************************************)
(* C6.  The segments _find_tone_segments returns are half-open sample      *)
(* intervals with start < end, both multiples of frame_length, in strictly *)
(* ascending start order and pairwise disjoint; each is one maximal run of *)
(* consecutive active frames, and every maximal run of at least            *)
(* min_tone_frames frames has its segment, the one that reaches the last   *)
(* frame included.                                                         *)
(***************************************************************************)
C6_SegmentsAreOrderedDisjointRuns ==
    pc = "seg_done" =>
        /\ \A s \in 1..Len(tone_segments) :
              /\ tone_segments[s][1] < tone_segments[s][2]
              /\ tone_segments[s][1] % frame_length = 0
              /\ tone_segments[s][2] % frame_length = 0
              /\ IsMaximalRun(tone_segments[s][1] \div frame_length,
                              tone_segments[s][2] \div frame_length)
        /\ \A s \in 1..(Len(tone_segments) - 1) :
              /\ tone_segments[s][1] < tone_segments[s + 1][1]
              /\ tone_segments[s][2] <= tone_segments[s + 1][1]
        /\ \A a \in 0..Len(tone_active), b \in 0..Len(tone_active) :
              (IsMaximalRun(a, b)
                  /\ b - a >= sample_rate \div (10 * frame_length))
              => \E s \in 1..Len(tone_segments) :
                     tone_segments[s] = <<a * frame_length, b * frame_length>>

\* Two segments, the second one reaching the last frame.
C6_Witness ==
    /\ pc = "seg_done"
    /\ Len(tone_segments) = 2
    /\ tone_segments[2][2] = Len(tone_active) * frame_length
    /\ tone_segments[1][1] > 0

(***************************************************************************)
(* C7.  No emitted segment is shorter than 100 ms:                         *)
(* end - start >= 0.1 * sample_rate for every segment.                     *)
(***************************************************************************)
C7_NoSegmentShorterThan100ms ==
    pc = "seg_done" =>
        \A s \in 1..Len(tone_segments) :
            10 * (tone_segments[s][2] - tone_segments[s][1]) >= sample_rate

(***************************************************************************)
(* C8.  A detector constructed with an explicit tolerance_hz t uses        *)
(* exactly t, for every t >= 0 (t = 0 included), whatever the settings     *)
(* hold.                                                                   *)
(***************************************************************************)
C8_ExplicitToleranceIsUsed ==
    (pc \in {"built", "matched"} /\ tolerance_arg # None)
        => tolerance_hz = tolerance_arg

(***************************************************************************)
(* The coarse scan of the window under analysis, read off the state: the   *)
(* magnitude at every candidate, the peak (the first candidate holding the *)
(* largest magnitude), and what lines 78-85 make of them.                  *)
(***************************************************************************)
MagnitudeAt(f) == window.bins[GoertzelBin(window.n, sample_rate, f)]

Candidate(i) == ScanMin + i * resolution_hz

IsPeak(i) ==
    /\ \A j \in 0..(NumCandidates - 1) :
          MagnitudeAt(Candidate(j)) <= MagnitudeAt(Candidate(i))
    /\ \A j \in 0..(i - 1) :
          MagnitudeAt(Candidate(j)) < MagnitudeAt(Candidate(i))

FlatScan ==
    \A i, j \in 0..(NumCandidates - 1) :
        MagnitudeAt(Candidate(i)) = MagnitudeAt(Candidate(j))

\* c thousandths is min(1, (peak - mean) / (5 * std)) rounded toward zero,
\* for a scan whose peak is candidate p: with N = n*peak - sum and
\* D = n*sumsq - sum^2, (5*c/1000)^2 * D <= N^2 < (5*(c+1)/1000)^2 * D
\* unless c is the cap.
IsCoarseConfidence(c, p) ==
    LET n == NumCandidates
        S == SumSeq([i \in 1..n |-> MagnitudeAt(Candidate(i - 1))])
        Q == SumSeq([i \in 1..n |-> MagnitudeAt(Candidate(i - 1))
                                       * MagnitudeAt(Candidate(i - 1))])
        N == n * MagnitudeAt(Candidate(p)) - S
        D == n * Q - S * S
        X == (40000 * N * N) \div D
    IN  IF D = 0 THEN c = 0
        ELSE /\ N >= 0
             /\ 0 <= c /\ c <= 1000
             /\ c * c <= X
             /\ c = 1000 \/ (c + 1) * (c + 1) > X

(***************************************************************************)
(* C5.  The confidence of an estimate lies in [0, 1]: it is exactly 0 when *)
(* the standard deviation of the scan magnitudes is zero, and otherwise    *)
(* min(1, (peak - mean) / (5 * std)), which is never negative; so the      *)
(* overall confidence (c1 + c2) / 2 lies in [0, 1] too.                    *)
(***************************************************************************)
C5_ConfidenceWithinUnitInterval ==
    /\ est1 # None => (0 <= est1[2] /\ est1[2] <= 1000)
    /\ est2 # None => (0 <= est2[2] /\ est2[2] <= 1000)
    /\ pc = "slice2" =>
          /\ FlatScan => est1[2] = 0
          /\ \E p \in 0..(NumCandidates - 1) :
                IsPeak(p) /\ IsCoarseConfidence(est1[2], p)
    /\ pc = "combine" =>
          /\ FlatScan => est2[2] = 0
          /\ \E p \in 0..(NumCandidates - 1) :
                IsPeak(p) /\ IsCoarseConfidence(est2[2], p)
    /\ (pc \in {"return", "returned"} /\ detection[1] # None) =>
          (0 <= detection[3] /\ detection[3] <= 2000)

\* The first estimate was capped at 1, the second comes from a flat scan
\* and is 0.
C5_Witness ==
    /\ pc = "combine"
    /\ est1[2] = 1000
    /\ FlatScan
    /\ est2[2] = 0

ClaimedGrid(peak_freq) ==
    {peak_freq - 2 * resolution_hz + j * (resolution_hz \div 4) : j \in 0..15}

AmendedGrid(peak_freq) ==
    {peak_freq - resolution_hz + j * (resolution_hz \div 8) : j \in 0..15}

IsGridMaximum(f, grid) ==
    /\ f \in grid
    /\ \A g \in grid : MagnitudeAt(g) <= MagnitudeAt(f)

EstimateFollows(est, as_claimed) ==
    \E p \in 0..(NumCandidates - 1) :
        /\ IsPeak(p)
        /\ IF p = 0 \/ p = NumCandidates - 1
           THEN est[1] = Candidate(p)
           ELSE IsGridMaximum(est[1], IF as_claimed
                                      THEN ClaimedGrid(Candidate(p))
                                      ELSE AmendedGrid(Candidate(p)))
        /\ IsCoarseConfidence(est[2], p)

(***************************************************************************)
(* C10, as claimed.  If the coarse peak is the first or the last candidate *)
(* the estimator returns the coarse peak frequency unrefined; otherwise it *)
(* returns the maximum-magnitude candidate of a rescan grid that runs from *)
(* peak_freq - 2*resolution to peak_freq + 2*resolution in steps of        *)
(* resolution/4; either way the confidence is the one of the coarse scan.  *)
(***************************************************************************)
C10_RefinementAsClaimed ==
    /\ pc = "slice2" => EstimateFollows(est1, TRUE)
    /\ pc = "combine" => EstimateFollows(est2, TRUE)

(***************************************************************************)
(* C10, as amended.  The same, with the rescan grid running from           *)
(* peak_freq - resolution (included) to peak_freq + resolution (excluded)  *)
(* in steps of resolution/8.                                               *)
(***************************************************************************)
C10_RefinementAmended ==
    /\ pc = "slice2" => EstimateFollows(est1, FALSE)
    /\ pc = "combine" => EstimateFollows(est2, FALSE)

\* An interior peak whose refinement moved the estimate off the coarse
\* candidate, to a frequency that is no multiple of resolution/4.
C10_Witness ==
    /\ pc = "slice2"
    /\ \E p \in 1..(NumCandidates - 2) :
          /\ IsPeak(p)
          /\ est1[1] # Candidate(p)
          /\ est1[1] % 2 = 1
          /\ MagnitudeAt(est1[1]) > MagnitudeAt(Candidate(p))

Near(x, edge) == Abs(x - edge) <= 80

(***************************************************************************)
(* C2.  The two-burst signal at 8000 Hz (burst A 1.0 s, silence 0.3 s,     *)
(* burst B 2.0 s) is segmented into exactly two segments, each boundary    *)
(* within one frame length (80 samples) of the true burst edge: burst A    *)
(* is samples [0, 8000), burst B is samples [10400, 26400).                *)
(***************************************************************************)
C2_TwoBurstsTwoSegments ==
    pc = "check" =>
        /\ Len(tone_segments) = 2
        /\ Near(tone_segments[1][1], 0)
        /\ Near(tone_segments[1][2], 8000)
        /\ Near(tone_segments[2][1], 10400)
        /\ Near(tone_segments[2][2], 26400)

SilentFile ==
    /\ audio.ok
    /\ audio.lead + audio.len1 + audio.gap + audio.len2 + audio.tail > 0
    /\ audio.len1 = 0 \/ audio.amp1 = 0
    /\ audio.len2 = 0 \/ audio.amp2 = 0

(***************************************************************************)
(* C3.  A silent waveform (every sample zero) is rejected before           *)
(* normalisation and segmentation: the zero maximum is never divided by,   *)
(* and no result, tones or the no-signal outcome, is returned for it.      *)
(***************************************************************************)
C3_SilentAudioIsRejected ==
    SilentFile =>
        /\ samples.den # 0
        /\ pc \notin {"energy", "smooth", "threshold", "segments", "check",
                      "return", "returned"}
        /\ pc = "done" => response.status # 200

(***************************************************************************)
(* C4.  With fewer than two segments detect_two_tone_sequence returns      *)
(* exactly (None, None, 0.0) and does not raise, and decode_audio then     *)
(* answers with both tones and the matched entry absent and confidence     *)
(* 0.0, without fetching the catalog or calling the matcher; with two or   *)
(* more segments both tone values are present.                             *)
(***************************************************************************)
C4_FewerThanTwoSegmentsIsNoDetection ==
    /\ pc = "return" =>
          /\ Len(tone_segments) < 2 => detection = <<None, None, 0>>
          /\ Len(tone_segments) >= 2 =>
                (detection[1] # None /\ detection[2] # None)
    /\ pc = "value_error" => tone_segments = <<>> /\ energy = NoSamples
    /\ (pc = "done" /\ detection # None /\ detection[1] = None) =>
          /\ response.status = 200
          /\ response.tone1_detected_hz = None
          /\ response.tone2_detected_hz = None
          /\ response.matched_entry = None
          /\ response.confidence = 0
          /\ ~db_fetched
          /\ catalog = <<>>
          /\ matched = None
    /\ (pc = "done" /\ detection # None /\ detection[1] # None) =>
          /\ response.tone1_detected_hz # None
          /\ response.tone2_detected_hz # None
          /\ db_fetched

\* Exactly one segment was found and the call is returning the
\* no-detection tuple.
C4_Witness ==
    /\ pc = "return"
    /\ Len(tone_segments) = 1
    /\ detection = <<None, None, 0>>

(***************************************************************************)
(* C9.  The energy sequence has one entry per complete frame: exactly      *)
(* floor(N / L) entries for N samples and frame length L, entry j being    *)
(* the sum of the squared samples of [j*L, (j+1)*L); only a trailing       *)
(* partial frame is dropped.                                               *)
(***************************************************************************)
C9_OneEnergyPerCompleteFrame ==
    pc = "smooth" =>
        /\ Len(energy.num) = Len(samples.num) \div frame_length
        /\ \A j \in 0..(Len(energy.num) - 1) :
              energy.num[j + 1] =
                  SumSeq([k \in 1..frame_length |->
                             samples.num[j * frame_length + k]
                                 * samples.num[j * frame_length + k]])

(***************************************************************************)
(* C11.  When the bytes read from the upload in chunks pass the maximum    *)
(* size, the partial temporary file is removed and the request ends with   *)
(* status 413: the handler's own exception handling does not replace that  *)
(* status by another.  Stated for a request whose removal of the partial   *)
(* file succeeded, at the point where its status is settled.               *)
(***************************************************************************)
C11_OversizeEndsWith413 ==
    \A r \in DOMAIN requests :
        (/\ requests[r].pc = "finally"
         /\ requests[r].bytes_written > max_size
         /\ ~requests[r].remove_failed)
            => /\ ~Exists(requests[r].temp_path[1])
               /\ requests[r].status = 413

\* a request is using its temporary file: written to, or read by the detector
HoldsFile(r) == requests[r].pc \in {"read", "detect", "fetch"}

\* the request got as far as naming its temporary file
Named(r) == requests[r].temp_path # None

(***************************************************************************)
(* C12.  Every request that got as far as its temporary file leaves none   *)
(* behind when it completes, whichever way it ends, provided os.remove did *)
(* not fail; and requests never touch each other's file: no two requests   *)
(* share a name, and while a request uses its file the file exists, was    *)
(* opened by that request and holds exactly the bytes it wrote.            *)
(***************************************************************************)
C12_TempFileIsOwnAndRemoved ==
    /\ \A r \in DOMAIN requests :
          (requests[r].pc = "done" /\ Named(r) /\ ~requests[r].remove_failed)
              => ~Exists(requests[r].temp_path[1])
    /\ \A r, q \in DOMAIN requests :
          (r # q /\ Named(r) /\ Named(q))
              => requests[r].temp_path # requests[q].temp_path
    /\ \A r \in DOMAIN requests :
          HoldsFile(r)
              => /\ Exists(requests[r].temp_path[1])
                 /\ upload_dir[requests[r].temp_path[1]] =
                       [writer |-> r, bytes |-> requests[r].bytes_written]

\* one request has completed with a match and its file is gone while
\* another, which wrote a whole upload, has its own file under detection
C12_Witness ==
    \E r, q \in DOMAIN requests :
        /\ r # q
        /\ requests[r].pc = "done"
        /\ requests[r].status = 200
        /\ requests[r].message = "match"
        /\ Named(r)
        /\ ~Exists(requests[r].temp_path[1])
        /\ requests[q].pc = "detect"
        /\ requests[q].bytes_written = max_size
        /\ Exists(requests[q].temp_path[1])

====
